---- MODULE Spec2Model ----
(***************************************************************************)
(* Model of authorize/grpc.go: the native call IsAuthorized, the           *)
(* reverse-proxy external-authorization call Check, and the helpers that   *)
(* normalise headers and URLs.                                             *)
(*                                                                         *)
(* A Go string is modelled as a sequence of one-character strings, so that *)
(* parsing, escaping and formatting are computed character by character,   *)
(* as net/url and net/textproto compute them.                              *)
(***************************************************************************)
EXTENDS Naturals, Sequences, FiniteSets, TLC

\* ------------------------------------------------------------------------
\* Characters
\* ------------------------------------------------------------------------

\* The printable ASCII characters, in code order: Printable[i] has code i + 31.
\* (The backquote, code 96, is written as the token "\x60".)
Printable ==
    << " ", "!", "\"", "#", "$", "%", "&", "'", "(", ")", "*", "+", ",", "-", ".", "/" >>
    \o << "0", "1", "2", "3", "4", "5", "6", "7", "8", "9", ":", ";", "<", "=", ">", "?" >>
    \o << "@", "A", "B", "C", "D", "E", "F", "G", "H", "I", "J", "K", "L", "M", "N", "O" >>
    \o << "P", "Q", "R", "S", "T", "U", "V", "W", "X", "Y", "Z", "[", "\\", "]", "^", "_" >>
    \o << "\\x60", "a", "b", "c", "d", "e", "f", "g", "h", "i", "j", "k", "l", "m", "n", "o" >>
    \o << "p", "q", "r", "s", "t", "u", "v", "w", "x", "y", "z", "{", "|", "}", "~" >>

PrintableSet == { Printable[i] : i \in 1..Len(Printable) }

\* The byte value of a printable character.
CodeOf == [ c \in PrintableSet |-> 31 + CHOOSE i \in 1..Len(Printable) : Printable[i] = c ]

UpperHex == << "0", "1", "2", "3", "4", "5", "6", "7", "8", "9", "A", "B", "C", "D", "E", "F" >>

\* A byte outside printable ASCII is written as one token, "\x" followed by
\* its two upper-case hexadecimal digits.
ByteToken(n) == "\\x" \o UpperHex[(n \div 16) + 1] \o UpperHex[(n % 16) + 1]

NonPrintableCodes == (0..31) \cup (127..255)

ByteOf(n) == IF n \in 32..126 THEN Printable[n - 31] ELSE ByteToken(n)

\* Byte value of any modelled character (printable or token).
Code(c) ==
    IF c \in PrintableSet THEN CodeOf[c]
    ELSE CHOOSE n \in NonPrintableCodes : ByteToken(n) = c

LowerLetters == { Printable[i] : i \in 66..91 }
UpperLetters == { Printable[i] : i \in 34..59 }
Digits       == { Printable[i] : i \in 17..26 }
Letters      == LowerLetters \cup UpperLetters
AlphaNum     == Letters \cup Digits

ToUpper(c) == IF c \in LowerLetters THEN Printable[CodeOf[c] - 31 - 32] ELSE c
ToLower(c) == IF c \in UpperLetters THEN Printable[CodeOf[c] - 31 + 32] ELSE c

ishex(c) == c \in Digits \cup {"a", "b", "c", "d", "e", "f", "A", "B", "C", "D", "E", "F"}

unhex(c) ==
    IF c \in Digits THEN CodeOf[c] - 48
    ELSE IF c \in {"a", "b", "c", "d", "e", "f"} THEN CodeOf[c] - 97 + 10
    ELSE IF c \in {"A", "B", "C", "D", "E", "F"} THEN CodeOf[c] - 65 + 10
    ELSE 0

\* ------------------------------------------------------------------------
\* strings
\* ------------------------------------------------------------------------

\* strings.Index for a one-character separator: the first position, or 0.
Index(s, c) ==
    IF \E i \in 1..Len(s) : s[i] = c
    THEN CHOOSE i \in 1..Len(s) : s[i] = c /\ \A j \in 1..(i - 1) : s[j] # c
    ELSE 0

\* strings.LastIndex for a one-character separator: the last position, or 0.
LastIndex(s, c) ==
    IF \E i \in 1..Len(s) : s[i] = c
    THEN CHOOSE i \in 1..Len(s) : s[i] = c /\ \A j \in (i + 1)..Len(s) : s[j] # c
    ELSE 0

Count(s, c) == Cardinality({ i \in 1..Len(s) : s[i] = c })

HasPrefix(s, p) == Len(s) >= Len(p) /\ SubSeq(s, 1, Len(p)) = p

From(s, i) == SubSeq(s, i, Len(s))

RECURSIVE Concat(_)
Concat(ss) == IF ss = << >> THEN << >> ELSE Head(ss) \o Concat(Tail(ss))

\* ------------------------------------------------------------------------
\* net/url: escaping
\* ------------------------------------------------------------------------

\* net/url shouldEscape, for the encoding modes this program reaches:
\* "encodePath", "encodeHost", "encodeQueryComponent", "encodeFragment".
HostAllowed ==
    { "!", "$", "&", "'", "(", ")", "*", "+", ",", ";", "=", ":", "[", "]", "<", ">", "\"" }

Reserved == { "$", "&", "+", ",", "/", ":", ";", "=", "?", "@" }

shouldEscape(c, mode) ==
    IF c \in AlphaNum THEN FALSE
    ELSE IF (mode = "encodeHost") /\ (c \in HostAllowed) THEN FALSE
    ELSE IF c \in { "-", "_", ".", "~" } THEN FALSE
    ELSE IF (c \in Reserved) /\ (mode = "encodePath") THEN c = "?"
    ELSE IF (c \in Reserved) /\ (mode = "encodeQueryComponent") THEN TRUE
    ELSE IF (c \in Reserved) /\ (mode = "encodeFragment") THEN FALSE
    ELSE IF (mode = "encodeFragment") /\ (c \in { "!", "(", ")", "*" }) THEN FALSE
    ELSE TRUE

\* net/url escape.
RECURSIVE escape(_, _)
escape(s, mode) ==
    IF s = << >> THEN << >>
    ELSE LET c == Head(s)
             e == IF ~shouldEscape(c, mode) THEN << c >>
                  ELSE IF c = " " /\ mode = "encodeQueryComponent" THEN << "+" >>
                  ELSE << "%", UpperHex[(Code(c) \div 16) + 1], UpperHex[(Code(c) % 16) + 1] >>
         IN  e \o escape(Tail(s), mode)

\* First pass of net/url unescape: TRUE when it returns an EscapeError or an
\* InvalidHostError, scanning from position i.
RECURSIVE unescapeFails(_, _, _)
unescapeFails(s, mode, i) ==
    IF i > Len(s) THEN FALSE
    ELSE IF s[i] = "%"
    THEN IF i + 2 > Len(s) \/ ~ishex(s[i + 1]) \/ ~ishex(s[i + 2]) THEN TRUE
         ELSE IF (mode = "encodeHost") /\ (unhex(s[i + 1]) < 8) /\ (SubSeq(s, i, i + 2) # << "%", "2", "5" >>)
         THEN TRUE
         ELSE unescapeFails(s, mode, i + 3)
    ELSE IF s[i] = "+" THEN unescapeFails(s, mode, i + 1)
    ELSE IF mode = "encodeHost" /\ Code(s[i]) < 128 /\ shouldEscape(s[i], "encodeHost")
    THEN TRUE
    ELSE unescapeFails(s, mode, i + 1)

\* Second pass of net/url unescape: the decoded string, from position i.
RECURSIVE unescapeFrom(_, _, _)
unescapeFrom(s, mode, i) ==
    IF i > Len(s) THEN << >>
    ELSE IF s[i] = "%"
    THEN << ByteOf(16 * unhex(s[i + 1]) + unhex(s[i + 2])) >> \o unescapeFrom(s, mode, i + 3)
    ELSE IF s[i] = "+"
    THEN << IF mode = "encodeQueryComponent" THEN " " ELSE "+" >> \o unescapeFrom(s, mode, i + 1)
    ELSE << s[i] >> \o unescapeFrom(s, mode, i + 1)

\* net/url unescape: [err, s].
unescape(s, mode) ==
    IF unescapeFails(s, mode, 1) THEN [err |-> TRUE, s |-> << >>]
    ELSE [err |-> FALSE, s |-> unescapeFrom(s, mode, 1)]

\* url.QueryEscape and url.QueryUnescape.
QueryEscape(s) == escape(s, "encodeQueryComponent")
QueryUnescape(s) == unescape(s, "encodeQueryComponent")

\* ------------------------------------------------------------------------
\* net/url: URL, Parse, String, ResolveReference, Values
\* ------------------------------------------------------------------------

\* url.URL. No inbound string of the model holds "@" or "[", so User is nil
\* and hosts are never bracketed IP literals.
EmptyURL ==
    [ Scheme |-> << >>, Opaque |-> << >>, Host |-> << >>, Path |-> << >>,
      RawPath |-> << >>, ForceQuery |-> FALSE, RawQuery |-> << >>, Fragment |-> << >> ]

ParseError == [err |-> TRUE, u |-> EmptyURL]

\* net/url split: cut s at the first c; the separator is dropped when cutc.
splitAt(s, i, cutc) ==
    IF i = 0 THEN << s, << >> >>
    ELSE IF cutc THEN << SubSeq(s, 1, i - 1), From(s, i + 1) >>
    ELSE << SubSeq(s, 1, i - 1), From(s, i) >>

split(s, c, cutc) == splitAt(s, Index(s, c), cutc)

\* net/url getscheme, scanning from position i: [err, scheme, rest].
RECURSIVE getschemeFrom(_, _)
getschemeFrom(rawurl, i) ==
    IF i > Len(rawurl) THEN [err |-> FALSE, scheme |-> << >>, rest |-> rawurl]
    ELSE IF rawurl[i] \in Letters THEN getschemeFrom(rawurl, i + 1)
    ELSE IF rawurl[i] \in Digits \cup { "+", "-", "." }
    THEN IF i = 1 THEN [err |-> FALSE, scheme |-> << >>, rest |-> rawurl]
         ELSE getschemeFrom(rawurl, i + 1)
    ELSE IF rawurl[i] = ":"
    THEN IF i = 1 THEN [err |-> TRUE, scheme |-> << >>, rest |-> << >>]
         ELSE [err |-> FALSE, scheme |-> SubSeq(rawurl, 1, i - 1), rest |-> From(rawurl, i + 1)]
    ELSE [err |-> FALSE, scheme |-> << >>, rest |-> rawurl]

getscheme(rawurl) == getschemeFrom(rawurl, 1)

\* strings.ToLower.
ToLowerString(s) == [ i \in 1..Len(s) |-> ToLower(s[i]) ]

\* net/url validOptionalPort.
validOptionalPort(port) ==
    IF port = << >> THEN TRUE
    ELSE IF port[1] # ":" THEN FALSE
    ELSE \A i \in 2..Len(port) : port[i] \in Digits

\* net/url parseHost (hosts that do not start with "["): [err, s].
parseHostPort(host, i) ==
    IF (i # 0) /\ ~validOptionalPort(From(host, i)) THEN [err |-> TRUE, s |-> << >>]
    ELSE unescape(host, "encodeHost")

parseHost(host) == parseHostPort(host, LastIndex(host, ":"))

\* net/url URL.setPath, given the unescaped path: [err, u].
setPathTo(u, p, path) ==
    IF path.err THEN [err |-> TRUE, u |-> u]
    ELSE [err |-> FALSE,
          u |-> [u EXCEPT !.Path = path.s,
                          !.RawPath = IF p = escape(path.s, "encodePath") THEN << >> ELSE p]]

\* net/url URL.setPath: [err, u].
setPath(u, p) == setPathTo(u, p, unescape(p, "encodePath"))

\* net/url parse: the authority has been cut from the path.
parseWithHost(u, host, path) ==
    IF host.err THEN ParseError ELSE setPath([u EXCEPT !.Host = host.s], path)

parseAuthority(u, auth) == parseWithHost(u, parseHost(auth[1]), auth[2])

\* net/url parse: the scheme and the query have been cut from rest.
parseRest(u, rest) ==
    IF ~HasPrefix(rest, << "/" >>) /\ (u.Scheme # << >>)
    THEN [err |-> FALSE, u |-> [u EXCEPT !.Opaque = rest]]
    ELSE IF ~HasPrefix(rest, << "/" >>) /\ (Index(rest, ":") > 0)
              /\ ((Index(rest, "/") = 0) \/ (Index(rest, ":") < Index(rest, "/")))
    THEN ParseError
    ELSE IF ((u.Scheme # << >>) \/ ~HasPrefix(rest, << "/", "/", "/" >>))
              /\ HasPrefix(rest, << "/", "/" >>)
    THEN parseAuthority(u, split(From(rest, 3), "/", FALSE))
    ELSE setPath(u, rest)

\* net/url parse: the scheme has been cut from rest.
parseQueryCut(scheme, rest) ==
    IF (rest # << >>) /\ (rest[Len(rest)] = "?") /\ (Count(rest, "?") = 1)
    THEN parseRest([EmptyURL EXCEPT !.Scheme = scheme, !.ForceQuery = TRUE],
                   SubSeq(rest, 1, Len(rest) - 1))
    ELSE parseRest([EmptyURL EXCEPT !.Scheme = scheme, !.RawQuery = split(rest, "?", TRUE)[2]],
                   split(rest, "?", TRUE)[1])

parseScheme(sch) ==
    IF sch.err THEN ParseError ELSE parseQueryCut(ToLowerString(sch.scheme), sch.rest)

\* net/url parse (viaRequest = false), after the fragment is cut off: [err, u].
parse(rawurl) ==
    IF rawurl = << "*" >> THEN [err |-> FALSE, u |-> [EmptyURL EXCEPT !.Path = << "*" >>]]
    ELSE parseScheme(getscheme(rawurl))

\* url.Parse, after parse: the fragment is unescaped.
parseFragment(url, frag) ==
    IF frag.err THEN ParseError
    ELSE [err |-> FALSE, u |-> [url.u EXCEPT !.Fragment = frag.s]]

parseWithFragment(url, frag) ==
    IF url.err THEN ParseError
    ELSE IF frag = << >> THEN url
    ELSE parseFragment(url, unescape(frag, "encodeFragment"))

parseCut(cut) == parseWithFragment(parse(cut[1]), cut[2])

\* url.Parse: [err, u].
Parse(rawurl) == parseCut(split(rawurl, "#", TRUE))

\* net/url validEncodedPath.
validEncodedPath(s) ==
    \A i \in 1..Len(s) :
        \/ s[i] \in { "!", "$", "&", "'", "(", ")", "*", "+", ",", ";", "=", ":", "@", "[", "]", "%" }
        \/ ~shouldEscape(s[i], "encodePath")

rawPathIs(p, path) == ~p.err /\ (p.s = path)

\* url.URL.EscapedPath.
EscapedPath(u) ==
    IF (u.RawPath # << >>) /\ validEncodedPath(u.RawPath)
         /\ rawPathIs(unescape(u.RawPath, "encodePath"), u.Path)
    THEN u.RawPath
    ELSE IF u.Path = << "*" >> THEN << "*" >>
    ELSE escape(u.Path, "encodePath")

\* url.URL.String: the path, after buf holds the scheme and the authority.
\* A first segment with a colon gets "./" in front when nothing precedes it.
writePath(buf, path) ==
    IF (buf = << >>) /\ (Index(path, ":") > 0) /\ (Index(SubSeq(path, 1, Index(path, ":") - 1), "/") = 0)
    THEN << ".", "/" >> \o path
    ELSE buf \o path

writeHierPart(buf, host, path) ==
    IF (path # << >>) /\ (path[1] # "/") /\ (host # << >>)
    THEN writePath(buf \o << "/" >>, path)
    ELSE writePath(buf, path)

writeScheme(u) == IF u.Scheme # << >> THEN u.Scheme \o << ":" >> ELSE << >>

writeAuthority(u) ==
    IF (u.Scheme # << >>) \/ (u.Host # << >>)
    THEN (IF (u.Host # << >>) \/ (u.Path # << >>) THEN << "/", "/" >> ELSE << >>)
         \o escape(u.Host, "encodeHost")
    ELSE << >>

writeQuery(u) ==
    IF u.ForceQuery \/ (u.RawQuery # << >>) THEN << "?" >> \o u.RawQuery ELSE << >>

writeFragment(u) ==
    IF u.Fragment # << >> THEN << "#" >> \o escape(u.Fragment, "encodeFragment") ELSE << >>

\* url.URL.String.
String(u) ==
    (IF u.Opaque # << >> THEN writeScheme(u) \o u.Opaque
     ELSE writeHierPart(writeScheme(u) \o writeAuthority(u), u.Host, EscapedPath(u)))
    \o writeQuery(u) \o writeFragment(u)

\* strings.Split(s, "/"): the sequence of segments.
RECURSIVE SplitSlash(_)
SplitSlash(s) ==
    IF Index(s, "/") = 0 THEN << s >>
    ELSE << SubSeq(s, 1, Index(s, "/") - 1) >> \o SplitSlash(From(s, Index(s, "/") + 1))

\* strings.Join(segs, "/").
RECURSIVE JoinSlash(_)
JoinSlash(segs) ==
    IF segs = << >> THEN << >>
    ELSE IF Len(segs) = 1 THEN segs[1]
    ELSE segs[1] \o << "/" >> \o JoinSlash(Tail(segs))

\* The loop of net/url resolvePath: drop ".", pop on "..", keep the rest.
RECURSIVE removeDotSegments(_, _)
removeDotSegments(src, dst) ==
    IF src = << >> THEN dst
    ELSE IF Head(src) = << "." >> THEN removeDotSegments(Tail(src), dst)
    ELSE IF Head(src) = << ".", "." >>
    THEN removeDotSegments(Tail(src), IF dst # << >> THEN SubSeq(dst, 1, Len(dst) - 1) ELSE dst)
    ELSE removeDotSegments(Tail(src), Append(dst, Head(src)))

\* strings.TrimPrefix(s, "/").
TrimSlash(s) == IF HasPrefix(s, << "/" >>) THEN Tail(s) ELSE s

resolveSegments(src, dst) ==
    << "/" >> \o TrimSlash(JoinSlash(
        IF src[Len(src)] \in { << "." >>, << ".", "." >> } THEN Append(dst, << >>) ELSE dst))

resolveFull(full) ==
    IF full = << >> THEN << >>
    ELSE resolveSegments(SplitSlash(full), removeDotSegments(SplitSlash(full), << >>))

\* net/url resolvePath.
resolvePath(base, ref) ==
    resolveFull(IF ref = << >> THEN base
                ELSE IF ref[1] # "/" THEN SubSeq(base, 1, LastIndex(base, "/")) \o ref
                ELSE ref)

\* url.URL.ResolveReference, for a reference without Opaque part. setPath
\* cannot fail here: its argument is a validly escaped path.
resolveRelative(u, ref, path) ==
    setPath([ref EXCEPT
                !.Scheme = u.Scheme,
                !.Host = u.Host,
                !.RawQuery = IF (ref.Path = << >>) /\ ~ref.ForceQuery /\ (@ = << >>)
                             THEN u.RawQuery ELSE @,
                !.Fragment = IF (ref.Path = << >>) /\ ~ref.ForceQuery /\ (ref.RawQuery = << >>)
                                  /\ (@ = << >>)
                             THEN u.Fragment ELSE @],
            path).u

ResolveReference(u, ref) ==
    IF (ref.Scheme # << >>) \/ (ref.Host # << >>)
    THEN setPath([ref EXCEPT !.Scheme = IF @ = << >> THEN u.Scheme ELSE @],
                 resolvePath(EscapedPath(ref), << >>)).u
    ELSE resolveRelative(u, ref, resolvePath(EscapedPath(u), EscapedPath(ref)))

\* Lexicographic order of strings by byte value (sort.Strings).
RECURSIVE LessStr(_, _)
LessStr(a, b) ==
    IF b = << >> THEN FALSE
    ELSE IF a = << >> THEN TRUE
    ELSE IF Code(Head(a)) # Code(Head(b)) THEN Code(Head(a)) < Code(Head(b))
    ELSE LessStr(Tail(a), Tail(b))

\* url.Values is a map from key to a sequence of values.
EmptyValues == [ k \in {} |-> << >> ]

\* url.Values.Set.
ValuesSet(v, key, value) ==
    [ k \in (DOMAIN v) \cup {key} |-> IF k = key THEN << value >> ELSE v[k] ]

\* url.Values.Get.
ValuesGet(v, key) ==
    IF (key \in DOMAIN v) /\ (v[key] # << >>) THEN v[key][1] ELSE << >>

\* One key of url.Values.Encode: key=value pairs joined by "&".
RECURSIVE encodeKey(_, _)
encodeKey(key, vs) ==
    IF vs = << >> THEN << >>
    ELSE QueryEscape(key) \o << "=" >> \o QueryEscape(Head(vs))
         \o (IF Tail(vs) = << >> THEN << >> ELSE << "&" >> \o encodeKey(key, Tail(vs)))

joinAmp(a, b) ==
    IF b = << >> THEN a ELSE IF a = << >> THEN b ELSE a \o << "&" >> \o b

\* The smallest key (sort.Strings order).
MinKey(keys) == CHOOSE x \in keys : \A y \in keys : (x = y) \/ LessStr(x, y)

\* url.Values.Encode: keys in sorted order.
RECURSIVE encodeKeys(_, _)
encodeKeysFrom(v, keys, k) == joinAmp(encodeKey(k, v[k]), encodeKeys(v, keys \ {k}))
encodeKeys(v, keys) == IF keys = {} THEN << >> ELSE encodeKeysFrom(v, keys, MinKey(keys))

Encode(v) == encodeKeys(v, DOMAIN v)

\* strings.IndexAny(s, "&;"): the first position of "&" or ";", or 0.
firstOf(a, b) == IF a = 0 THEN b ELSE IF b = 0 THEN a ELSE IF a < b THEN a ELSE b

IndexAmpSemi(s) == firstOf(Index(s, "&"), Index(s, ";"))

\* m[key] = append(m[key], value)
ValuesAdd(m, key, value) ==
    [ k \in (DOMAIN m) \cup {key} |->
        IF k = key THEN (IF k \in DOMAIN m THEN m[k] ELSE << >>) \o << value >> ELSE m[k] ]

\* net/url parseQuery: pairs with a bad escape are skipped.
RECURSIVE parseQuery(_, _)
parsePair(m, key, value, rest) ==
    IF key.err \/ value.err THEN parseQuery(m, rest)
    ELSE parseQuery(ValuesAdd(m, key.s, value.s), rest)

parseKeyValue(m, pair, e, rest) ==
    IF pair = << >> THEN parseQuery(m, rest)
    ELSE parsePair(m, QueryUnescape(IF e > 0 THEN SubSeq(pair, 1, e - 1) ELSE pair),
                   QueryUnescape(IF e > 0 THEN From(pair, e + 1) ELSE << >>), rest)

parseNext(m, pair, rest) == parseKeyValue(m, pair, Index(pair, "="), rest)

parseQueryAt(m, query, i) ==
    IF i > 0 THEN parseNext(m, SubSeq(query, 1, i - 1), From(query, i + 1))
    ELSE parseNext(m, query, << >>)

parseQuery(m, query) ==
    IF query = << >> THEN m ELSE parseQueryAt(m, query, IndexAmpSemi(query))

\* url.URL.Query.
Query(u) == parseQuery(EmptyValues, u.RawQuery)

\* ------------------------------------------------------------------------
\* net/http: header keys
\* ------------------------------------------------------------------------

\* net/textproto validHeaderFieldByte: the token characters of RFC 7230.
validHeaderFieldByte(c) ==
    c \in AlphaNum \cup { "!", "#", "$", "%", "&", "'", "*", "+", "-", ".", "^", "_", "\\x60", "|", "~" }

\* CanonicalHeaderKey as it would be if only the first letter of the key
\* were put in upper case.
CanonicalHeaderKeyFirstOnly(s) ==
    IF \E i \in 1..Len(s) : ~validHeaderFieldByte(s[i]) THEN s
    ELSE [ i \in 1..Len(s) |-> IF i = 1 THEN ToUpper(s[i]) ELSE ToLower(s[i]) ]

\* http.CanonicalHeaderKey: a key holding a byte that is no token character
\* is returned unchanged; otherwise the first letter and every letter after
\* "-" are upper case and all others lower case.
CanonicalHeaderKey(s) ==
    IF \E i \in 1..Len(s) : ~validHeaderFieldByte(s[i]) THEN s
    ELSE [ i \in 1..Len(s) |->
             IF (i = 1) \/ (s[i - 1] = "-") THEN ToUpper(s[i]) ELSE ToLower(s[i]) ]

\* ------------------------------------------------------------------------
\* Literals of authorize/grpc.go
\* ------------------------------------------------------------------------

\* "http" (grpc.go:169).
http == << "h", "t", "t", "p" >>

\* "x-forwarded-proto" (grpc.go:194).
XForwardedProto ==
    << "x", "-", "f", "o", "r", "w", "a", "r", "d", "e", "d", "-", "p", "r", "o", "t", "o" >>

\* "/.pomerium/sign_in" (grpc.go:93).
SignInPath ==
    << "/", ".", "p", "o", "m", "e", "r", "i", "u", "m", "/", "s", "i", "g", "n", "_", "i", "n" >>

\* "Location" (grpc.go:111).
Location == << "L", "o", "c", "a", "t", "i", "o", "n" >>

\* urlutil.QueryRedirectURI (grpc.go:95): the name of the return-redirect
\* query parameter.
QueryRedirectURI ==
    << "p", "o", "m", "e", "r", "i", "u", "m", "_", "r", "e", "d", "i", "r", "e", "c", "t", "_", "u", "r", "i" >>

\* ------------------------------------------------------------------------
\* Helpers of authorize/grpc.go
\* ------------------------------------------------------------------------

\* cloneHeaders: a new map with a fresh copy of every value sequence.
cloneHeaders(headers) ==
    [ key \in DOMAIN headers |-> [ i \in 1..Len(headers[key]) |-> headers[key][i] ] ]

\* Slices in memory: heap[a] is the backing array of the slice at address a;
\* caller and out map the keys of the caller's map and of the copy to the
\* addresses of their slices.
\* cloneHeaders as it would be if it stored the caller's slices in the new map.
cloneHeadersShallow(m) == [ m EXCEPT !.out = m.caller ]

\* cloneHeaders on slices in memory: for every key a new slice of the same
\* length is made, the values are copied into it, and the new map holds it
\* (grpc.go:151-156).
cloneHeadersRefs(m) ==
    [ heap   |-> m.heap \o [ a \in 1..Len(m.heap) |-> [ i \in 1..Len(m.heap[a]) |-> m.heap[a][i] ] ],
      caller |-> m.caller,
      out    |-> [ key \in DOMAIN m.caller |-> Len(m.heap) + m.caller[key] ] ]

\* The header map that the map refs of slices stands for.
HeadersAt(m, refs) == [ key \in DOMAIN refs |-> m.heap[refs[key]] ]

\* getFullURL as it would be without the fallback for a raw URL that does
\* not parse.
fullURLOfNoFallback(p, rawurl, host) ==
    String([ (IF p.err THEN EmptyURL ELSE p.u) EXCEPT
               !.Host = IF @ = << >> THEN host ELSE @,
               !.Scheme = IF @ = << >> THEN http ELSE @ ])

\* getFullURL, after url.Parse: the fallback, the defaults, the string.
fullURLOf(p, rawurl, host) ==
    String([ (IF p.err THEN [EmptyURL EXCEPT !.Path = rawurl] ELSE p.u) EXCEPT
               !.Host = IF @ = << >> THEN host ELSE @,
               !.Scheme = IF @ = << >> THEN http ELSE @ ])

\* getFullURL.
getFullURL(rawurl, host) == fullURLOf(Parse(rawurl), rawurl, host)

\* getCheckRequestHeaders: the maps the loop can build. Go ranges over a map
\* in an unspecified order, so when several inbound keys have the same
\* canonical form, the value of any one of them can be the one that stays.
getCheckRequestHeaders(request) ==
    LET ch   == request.headers
        keys == { CanonicalHeaderKey(k) : k \in DOMAIN ch }
    IN  { h \in [ keys -> { << ch[k] >> : k \in DOMAIN ch } ] :
            \A ck \in keys : \E k \in DOMAIN ch : (CanonicalHeaderKey(k) = ck) /\ (h[ck] = << ch[k] >>) }

\* getCheckRequestURL as it would be if it looked the header up under its
\* canonical name.
getCheckRequestURLCanonicalKey(request) ==
    LET u == [EmptyURL EXCEPT !.Scheme = request.scheme, !.Host = request.host,
                              !.Path = request.path, !.RawQuery = request.query]
    IN  IF CanonicalHeaderKey(XForwardedProto) \in DOMAIN request.headers
        THEN [u EXCEPT !.Scheme = request.headers[CanonicalHeaderKey(XForwardedProto)]]
        ELSE u

\* getCheckRequestURL.
getCheckRequestURL(request) ==
    LET u == [EmptyURL EXCEPT !.Scheme = request.scheme, !.Host = request.host,
                              !.Path = request.path, !.RawQuery = request.query]
    IN  IF XForwardedProto \in DOMAIN request.headers
        THEN [u EXCEPT !.Scheme = request.headers[XForwardedProto]]
        ELSE u

\* ------------------------------------------------------------------------
\* Sessions and the evaluator
\* ------------------------------------------------------------------------

Nil == "nil"

\* The sentinel errors of package sessions that Check compares against.
RecoverableErrors ==
    { "ErrExpired", "ErrIssuedInTheFuture", "ErrMalformed", "ErrNoSessionFound", "ErrNotValidYet" }

\* Error values that are none of the sentinels: a failure of
\* jws.NewHS256Signer, of cookie.NewStore, or another error of LoadSession.
SignerErrors == { "ErrSignerKey" }
StoreErrors  == { "ErrStoreOptions" }
LoadErrors   == { "ErrLoadOther" }
OtherErrors  == SignerErrors \cup StoreErrors \cup LoadErrors

\* error.Error(): the message of a non-nil error.
Error(e) ==
    CASE e = "ErrSignerKey"    -> "signer: invalid key"
      [] e = "ErrStoreOptions" -> "store: invalid options"
      [] e = "ErrLoadOther"    -> "session: load failed"
      [] OTHER                 -> e

\* The identity token of a verified session.
Tokens == { "jwt" }

\* cookieStore.LoadSession: a token and no error, or no token and an error.
LoadSessionResults ==
    { [sess |-> t, err |-> Nil] : t \in Tokens }
    \cup { [sess |-> "", err |-> e] : e \in RecoverableErrors \cup LoadErrors }

\* loadSessionFromCheckRequest as it would be if a cookie-store error came
\* back together with the token read from the cookie.
loadSessionFromCheckRequestKeepsToken(options, headers) ==
    { [sess |-> "", err |-> e] : e \in SignerErrors }
    \cup { [sess |-> t, err |-> e] : t \in Tokens, e \in StoreErrors }
    \cup LoadSessionResults

\* loadSessionFromCheckRequest: the (sess, err) pairs it can return.
loadSessionFromCheckRequest(options, headers) ==
    { [sess |-> "", err |-> e] : e \in SignerErrors }
    \cup { [sess |-> "", err |-> e] : e \in StoreErrors }
    \cup LoadSessionResults

\* a.pe.IsAuthorized: a reply and no error, or no reply and an error.
EvaluatorErrors == { "ErrEvaluator", "ErrDeadlineExceeded" }

\* A nil *authorize.IsAuthorizedReply and a nil *CheckResponse.
NilReply == [kind |-> "nil"]
NilResponse == [kind |-> "nil"]

EvaluatorResults ==
    { [reply |-> [kind |-> "IsAuthorizedReply", Allow |-> a], err |-> Nil] : a \in BOOLEAN }
    \cup { [reply |-> NilReply, err |-> e] : e \in EvaluatorErrors }

\* ------------------------------------------------------------------------
\* Check: request and responses
\* ------------------------------------------------------------------------

\* The evaluator.Request that Check builds (grpc.go:49-57).
CheckEvaluatorRequest(request, headers, session, url) ==
    [ User       |-> session,
      Header     |-> headers,
      Host       |-> request.host,
      Method     |-> request.method,
      RequestURI |-> url,
      RemoteAddr |-> request.source,
      URL        |-> url ]

\* The query of the sign-in URL as it would be with the request URL written
\* into it as it is.
withRedirectURIUnencoded(signinURL, target) ==
    [signinURL EXCEPT !.RawQuery = QueryRedirectURI \o << "=" >> \o target]

\* q := signinURL.Query(); q.Set(...); signinURL.RawQuery = q.Encode()
\* (grpc.go:94-96).
withRedirectURI(signinURL, target) ==
    [signinURL EXCEPT !.RawQuery = Encode(ValuesSet(Query(signinURL), QueryRedirectURI, target))]

\* The sign-in URL as it would be if it were the request URL with its path
\* replaced.
SignInURLKeepsQuery(url) ==
    withRedirectURI([url EXCEPT !.Path = SignInPath, !.RawPath = << >>], String(url))

\* The sign-in URL (grpc.go:93-96).
SignInURL(url) ==
    withRedirectURI(ResolveReference(url, [EmptyURL EXCEPT !.Path = SignInPath]), String(url))

\* The response for an allowed request (grpc.go:66-69).
OkResponse ==
    [ kind |-> "CheckResponse",
      Status |-> [Code |-> "OK", Message |-> "OK"],
      HttpResponse |-> [kind |-> "OkResponse", Headers |-> << >>] ]

\* The denial as it would be without the message of the session error.
ForbiddenResponseNoMessage(e) ==
    [ kind |-> "CheckResponse",
      Status |-> [Code |-> "PermissionDenied", Message |-> ""],
      HttpResponse |-> [kind |-> "DeniedResponse", Status |-> "Forbidden", Headers |-> << >>] ]

\* The response for all other errors (grpc.go:76-90).
ForbiddenResponse(e) ==
    [ kind |-> "CheckResponse",
      Status |-> [Code |-> "PermissionDenied", Message |-> IF e # Nil THEN Error(e) ELSE ""],
      HttpResponse |-> [kind |-> "DeniedResponse", Status |-> "Forbidden", Headers |-> << >>] ]

\* The redirect to login as it would be with the status code of the denial.
RedirectResponsePermissionDenied(url) ==
    [ kind |-> "CheckResponse",
      Status |-> [Code |-> "PermissionDenied", Message |-> "unauthenticated"],
      HttpResponse |-> [kind |-> "DeniedResponse", Status |-> "Found",
                        Headers |-> << [Key |-> Location, Value |-> String(SignInURL(url))] >>] ]

\* The redirect to login (grpc.go:93-117).
RedirectResponse(url) ==
    [ kind |-> "CheckResponse",
      Status |-> [Code |-> "Unauthenticated", Message |-> "unauthenticated"],
      HttpResponse |-> [kind |-> "DeniedResponse", Status |-> "Found",
                        Headers |-> << [Key |-> Location, Value |-> String(SignInURL(url))] >>] ]

\* Check as it would be with the session error examined before the reply.
CheckResultSessionFirst(evalReply, evalErr, sessionErr, url) ==
    IF evalErr # Nil THEN [resp |-> NilResponse, err |-> evalErr]
    ELSE IF sessionErr \in RecoverableErrors THEN [resp |-> RedirectResponse(url), err |-> Nil]
    ELSE IF sessionErr # Nil THEN [resp |-> ForbiddenResponse(sessionErr), err |-> Nil]
    ELSE IF evalReply.Allow THEN [resp |-> OkResponse, err |-> Nil]
    ELSE [resp |-> ForbiddenResponse(sessionErr), err |-> Nil]

\* Check as it would be with two sentinels missing from the case list.
CheckResultFewerSentinels(evalReply, evalErr, sessionErr, url) ==
    IF evalErr # Nil THEN [resp |-> NilResponse, err |-> evalErr]
    ELSE IF evalReply.Allow THEN [resp |-> OkResponse, err |-> Nil]
    ELSE IF sessionErr \in RecoverableErrors \ { "ErrIssuedInTheFuture", "ErrNotValidYet" }
    THEN [resp |-> RedirectResponse(url), err |-> Nil]
    ELSE [resp |-> ForbiddenResponse(sessionErr), err |-> Nil]

\* Check as it would be with a nil session error sent to login.
CheckResultNilRedirects(evalReply, evalErr, sessionErr, url) ==
    IF evalErr # Nil THEN [resp |-> NilResponse, err |-> evalErr]
    ELSE IF evalReply.Allow THEN [resp |-> OkResponse, err |-> Nil]
    ELSE IF sessionErr \in RecoverableErrors \cup { Nil }
    THEN [resp |-> RedirectResponse(url), err |-> Nil]
    ELSE [resp |-> ForbiddenResponse(sessionErr), err |-> Nil]

\* What Check returns once the evaluator has answered (grpc.go:60-117).
CheckResult(evalReply, evalErr, sessionErr, url) ==
    IF evalErr # Nil THEN [resp |-> NilResponse, err |-> evalErr]
    ELSE IF evalReply.Allow THEN [resp |-> OkResponse, err |-> Nil]
    ELSE IF sessionErr \in RecoverableErrors THEN [resp |-> RedirectResponse(url), err |-> Nil]
    ELSE [resp |-> ForbiddenResponse(sessionErr), err |-> Nil]

\* ------------------------------------------------------------------------
\* State
\* ------------------------------------------------------------------------

VARIABLES
    pc,             \* position of the call in flight
    in,             \* the inbound request of the call
    currentOptions, \* a.currentOptions: the published configuration snapshot
    opts,           \* loadSessionFromCheckRequest: the snapshot it loaded
    hdrs,           \* Check: hdrs
    sess,           \* Check: sess
    sesserr,        \* Check: sesserr
    requestURL,     \* Check: requestURL
    req,            \* the evaluator.Request handed to the evaluator
    reply,          \* the evaluator's reply
    err,            \* the evaluator's error
    resp,           \* the response returned to the caller
    reterr,         \* the error returned to the caller
    store,          \* loadSessionFromCheckRequest: the signer and cookie options it built
    steps,          \* the calls the handler has made so far, in order
    mem             \* cloneHeaders: the slices of the caller and of the copy

vars == << pc, in, currentOptions, opts, hdrs, sess, sesserr, requestURL, req, reply, err,
           resp, reterr, store, steps, mem >>

\* ------------------------------------------------------------------------
\* Inbound requests of the model
\* ------------------------------------------------------------------------

HostA == << "a", ".", "i", "o" >>
HostB == << "b", ".", "i", "o" >>
https == << "h", "t", "t", "p", "s" >>
PathP == << "/", "p" >>
QueryX == << "x", "=", "1" >>
XFoo == << "x", "-", "f", "o", "o" >>
Bar == << "b", "a", "r" >>
RawFoo == << "/", "f", "o", "o", "?", "x", "=", "1" >>
RawBad == << "%", "z", "z" >>
RawAbs == https \o << ":", "/", "/" >> \o HostB \o << "/", "x" >>

NoHeaders == [ k \in {} |-> << >> ]

\* Header mappings of proxy-check requests (one value per key).
CheckHeaderMaps ==
    { NoHeaders,
      [ k \in {XForwardedProto} |-> https ],
      [ k \in {XForwardedProto} |-> << >> ],
      [ k \in {XFoo} |-> Bar ],
      [ k \in {CanonicalHeaderKey(XForwardedProto)} |-> https ],
      [ k \in {XFoo, CanonicalHeaderKey(XFoo)} |-> IF k = XFoo THEN Bar ELSE https ] }

\* The attributes of a proxy-check request that Check reads.
CheckRequests ==
    [ scheme : { << >>, http }, host : { << >>, HostA }, path : { << >>, PathP },
      query : { << >>, QueryX }, headers : CheckHeaderMaps, method : { "GET" },
      source : { "10.0.0.1:4000" } ]

\* The fields of a native request.
NativeRequests ==
    [ UserToken : { "", "jwt" },
      RequestHeaders : { NoHeaders, [ k \in {XFoo} |-> << Bar, Bar >> ] },
      RequestHost : { << >>, HostA },
      RequestMethod : { "GET" },
      RequestRequestUri : { RawFoo },
      RequestRemoteAddr : { "10.0.0.1:4000" },
      RequestUrl : { << >>, RawFoo, RawBad, RawAbs } ]

\* config.Options: the fields loadSessionFromCheckRequest reads.
OptionsA ==
    [ SharedKey |-> "key-a", AuthenticateHost |-> "auth-a", CookieName |-> "_pomerium",
      CookieDomain |-> "", CookieSecure |-> TRUE, CookieHTTPOnly |-> TRUE, CookieExpire |-> "14h" ]

\* A second configuration, every field different.
OptionsB ==
    [ SharedKey |-> "key-b", AuthenticateHost |-> "auth-b", CookieName |-> "_pomerium_b",
      CookieDomain |-> "b.io", CookieSecure |-> FALSE, CookieHTTPOnly |-> FALSE, CookieExpire |-> "1h" ]

\* The configurations that are published.
Snapshots == { OptionsA, OptionsB }

NoURL == EmptyURL

\* No signer and no cookie options built (yet).
NoStore == [ kind |-> "nil" ]

\* No slices allocated.
NoMem == [ heap |-> << >>, caller |-> << >>, out |-> << >> ]

\* The signer and the cookie options as they would be if the cookie options
\* were read from the configuration published now, not from the loaded one.
sessionStoreReloaded(options) ==
    [ kind |-> "Store",
      encoder |-> [ key |-> options.SharedKey, audience |-> options.AuthenticateHost ],
      cookieOptions |-> [ Name |-> currentOptions.CookieName, Domain |-> currentOptions.CookieDomain,
                          Secure |-> currentOptions.CookieSecure, HTTPOnly |-> currentOptions.CookieHTTPOnly,
                          Expire |-> currentOptions.CookieExpire ] ]

\* The signer and the cookie options loadSessionFromCheckRequest builds from
\* the options it loaded (grpc.go:124-135).
sessionStoreOf(options) ==
    [ kind |-> "Store",
      encoder |-> [ key |-> options.SharedKey, audience |-> options.AuthenticateHost ],
      cookieOptions |-> [ Name |-> options.CookieName, Domain |-> options.CookieDomain,
                          Secure |-> options.CookieSecure, HTTPOnly |-> options.CookieHTTPOnly,
                          Expire |-> options.CookieExpire ] ]

\* ------------------------------------------------------------------------
\* The calls
\* ------------------------------------------------------------------------

Init ==
    /\ pc = "idle"
    /\ in = Nil
    /\ currentOptions = OptionsA
    /\ opts = Nil
    /\ hdrs = NoHeaders
    /\ sess = ""
    /\ sesserr = Nil
    /\ requestURL = NoURL
    /\ req = Nil
    /\ reply = NilReply
    /\ err = Nil
    /\ resp = NilResponse
    /\ reterr = Nil
    /\ store = NoStore
    /\ steps = << >>
    /\ mem = NoMem

\* The evaluator.Request of IsAuthorized as it would be if the user token
\* were left out.
IsAuthorizedRequestNoUser(request) ==
    [ User       |-> "",
      Header     |-> cloneHeaders(request.RequestHeaders),
      Host       |-> request.RequestHost,
      Method     |-> request.RequestMethod,
      RequestURI |-> request.RequestRequestUri,
      RemoteAddr |-> request.RequestRemoteAddr,
      URL        |-> getFullURL(request.RequestUrl, request.RequestHost) ]

\* IsAuthorized builds the evaluator.Request (grpc.go:31-39).
IsAuthorizedRequest(request) ==
    [ User       |-> request.UserToken,
      Header     |-> cloneHeaders(request.RequestHeaders),
      Host       |-> request.RequestHost,
      Method     |-> request.RequestMethod,
      RequestURI |-> request.RequestRequestUri,
      RemoteAddr |-> request.RequestRemoteAddr,
      URL        |-> getFullURL(request.RequestUrl, request.RequestHost) ]

\* IsAuthorized, up to the call of the evaluator (grpc.go:27-39).
IsAuthorizedBuild ==
    /\ pc = "idle"
    /\ \E request \in NativeRequests :
         /\ in' = request
         /\ req' = IsAuthorizedRequest(request)
    /\ pc' = "native_built"
    /\ UNCHANGED << currentOptions, opts, hdrs, sess, sesserr, requestURL, reply, err, resp, reterr, store, steps, mem >>

\* IsAuthorized returns what the evaluator returns (grpc.go:40).
IsAuthorizedReturn ==
    /\ pc = "native_built"
    /\ \E r \in EvaluatorResults :
         /\ reply' = r.reply
         /\ err' = r.err
         /\ resp' = r.reply
         /\ reterr' = r.err
    /\ pc' = "native_done"
    /\ steps' = Append(steps, "evaluator")
    /\ UNCHANGED << in, currentOptions, opts, hdrs, sess, sesserr, requestURL, req, store, mem >>

\* Check reads the headers; loadSessionFromCheckRequest loads the published
\* options (grpc.go:44-47, 121).
CheckLoadOptions ==
    /\ pc = "idle"
    /\ \E request \in CheckRequests :
         /\ in' = request
         /\ \E h \in getCheckRequestHeaders(request) : hdrs' = h
    /\ opts' = currentOptions
    /\ pc' = "check_loaded"
    /\ UNCHANGED << currentOptions, sess, sesserr, requestURL, req, reply, err, resp, reterr,
                    store, steps, mem >>

\* The rest of loadSessionFromCheckRequest, and Check up to the call of the
\* evaluator (grpc.go:124-145, 48-58).
CheckResolve ==
    /\ pc = "check_loaded"
    /\ \E h2 \in getCheckRequestHeaders(in) :
       \E s \in loadSessionFromCheckRequest(opts, h2) :
         /\ sess' = s.sess
         /\ sesserr' = s.err
         /\ store' = IF s.err \in SignerErrors THEN NoStore ELSE sessionStoreOf(opts)
         /\ requestURL' = getCheckRequestURL(in)
         /\ req' = CheckEvaluatorRequest(in, hdrs, s.sess, String(getCheckRequestURL(in)))
    /\ steps' = Append(steps, "loadSession")
    /\ pc' = "check_resolved"
    /\ UNCHANGED << in, currentOptions, opts, hdrs, reply, err, resp, reterr, mem >>

\* Check as it would be if it called the evaluator again after an error.
CheckEvaluateRetry ==
    /\ pc = "check_resolved"
    /\ \E r \in EvaluatorResults :
         /\ reply' = r.reply
         /\ err' = r.err
         /\ pc' = IF (r.err # Nil) /\ (Len(steps) < 3) THEN "check_resolved" ELSE "check_evaluated"
    /\ steps' = Append(steps, "evaluator")
    /\ UNCHANGED << in, currentOptions, opts, hdrs, sess, sesserr, requestURL, req, resp, reterr,
                    store, mem >>

\* Check calls the evaluator (grpc.go:59).
CheckEvaluate ==
    /\ pc = "check_resolved"
    /\ \E r \in EvaluatorResults :
         /\ reply' = r.reply
         /\ err' = r.err
    /\ pc' = "check_evaluated"
    /\ steps' = Append(steps, "evaluator")
    /\ UNCHANGED << in, currentOptions, opts, hdrs, sess, sesserr, requestURL, req, resp, reterr,
                    store, mem >>

\* Check maps the reply and the session error to its response (grpc.go:60-117).
CheckRespond ==
    /\ pc = "check_evaluated"
    /\ LET r == CheckResult(reply, err, sesserr, requestURL)
       IN  /\ resp' = r.resp
           /\ reterr' = r.err
           /\ steps' = IF r.resp = NilResponse THEN steps ELSE Append(steps, "response")
    /\ pc' = "check_done"
    /\ UNCHANGED << in, currentOptions, opts, hdrs, sess, sesserr, requestURL, req, reply, err,
                    store, mem >>

\* The call is over; the server takes the next one.
Return ==
    /\ pc \in { "native_done", "check_done" }
    /\ pc' = "idle"
    /\ in' = Nil
    /\ opts' = Nil
    /\ hdrs' = NoHeaders
    /\ sess' = ""
    /\ sesserr' = Nil
    /\ requestURL' = NoURL
    /\ req' = Nil
    /\ reply' = NilReply
    /\ err' = Nil
    /\ resp' = NilResponse
    /\ reterr' = Nil
    /\ store' = NoStore
    /\ steps' = << >>
    /\ UNCHANGED << currentOptions, mem >>

\* A new configuration is published: the stored value is replaced as a
\* whole, whatever the calls in flight are doing.
UpdateOptions ==
    /\ \E o \in Snapshots \ { currentOptions } : currentOptions' = o
    /\ UNCHANGED << pc, in, opts, hdrs, sess, sesserr, requestURL, req, reply, err, resp, reterr,
                    store, steps, mem >>

Next ==
    \/ CheckLoadOptions
    \/ CheckResolve
    \/ CheckEvaluate
    \/ CheckRespond
    \/ IsAuthorizedBuild
    \/ IsAuthorizedReturn
    \/ Return
    \/ UpdateOptions

Spec == Init /\ [][Next]_vars

\* ------------------------------------------------------------------------
\* The helpers on their own, over bounded sets of inputs
\* ------------------------------------------------------------------------

\* Longest raw URL of a native request.
MaxRawLen == 3

\* Longest path attribute of a proxy-check request.
MaxPathLen == 2

\* Most entries of a proxy-check header mapping.
MaxHeaders == 2

StringsUpTo(chars, n) == UNION { [ 1..k -> chars ] : k \in 0..n }

RawChars == { "a", "4", "/", ":", "?", "%", "#" }

PathChars == { "a", "/", ":", "?", "%", " " }

UrlQueries ==
    { << >>, QueryX, << "a", "&", "b" >>, << "q", "#", "f" >>, << "%", "z", "+", " " >> }

\* Header mappings with and without x-forwarded-proto; a client chooses the
\* value, so one of them is not a scheme.
ForwardedProtoMaps ==
    { NoHeaders,
      [ k \in {XForwardedProto} |-> https ],
      [ k \in {XForwardedProto} |-> << >> ],
      [ k \in {XForwardedProto} |-> << "a", "?" >> ] }

HeaderKeys ==
    { XFoo, CanonicalHeaderKey(XFoo), << "x", "-", "F", "O", "O" >>, << "x", " ", "f" >>,
      XForwardedProto, CanonicalHeaderKey(XForwardedProto) }

HeaderValues == { Bar, https }

BoundedHeaderMaps ==
    UNION { [ D -> HeaderValues ] : D \in { D \in SUBSET HeaderKeys : Cardinality(D) <= MaxHeaders } }

UrlCheckRequests ==
    [ scheme : { << >>, http }, host : { << >>, HostA }, path : StringsUpTo(PathChars, MaxPathLen),
      query : UrlQueries, headers : ForwardedProtoMaps,
      method : { "GET" }, source : { "10.0.0.1:4000" } ]

HeaderCheckRequests ==
    [ scheme : { http }, host : { HostA }, path : { PathP }, query : { << >> },
      headers : BoundedHeaderMaps, method : { "GET" }, source : { "10.0.0.1:4000" } ]

\* Header maps of native requests: a key has any number of values.
NativeHeaderMaps ==
    UNION { [ D -> { << >>, << Bar >>, << Bar, https >> } ] : D \in SUBSET { XFoo, Bar } }

\* The slices of the header map of a caller, one per key.
CallerMem(headers) ==
    LET n == Cardinality(DOMAIN headers)
        f == CHOOSE g \in [ 1..n -> DOMAIN headers ] : \A i, j \in 1..n : (g[i] = g[j]) => (i = j)
    IN  [ heap   |-> [ a \in 1..n |-> headers[f[a]] ],
          caller |-> [ key \in DOMAIN headers |-> CHOOSE a \in 1..n : f[a] = key ],
          out    |-> NoMem.out ]

\* Raw URLs of native requests put together from a scheme, an authority, a
\* path and a query or fragment.
RawSchemes == { << >>, << "a", ":" >>, https \o << ":" >> }
RawAuthorities == { << >>, << "/", "/" >>, << "/", "/" >> \o HostB, << "/", "/" >> \o HostB \o << ":", "4" >> }
RawPaths == { << >>, << "/" >>, << "/", "f", "o", "o" >>, << "a" >>, << "/", "a", " ", "b" >>, << "/", "%", "4", "1" >> }
RawQueries == { << >>, << "?" >> \o QueryX, << "?" >>, << "#", "f" >> }

StructuredRaws ==
    { s \o a \o p \o q : s \in RawSchemes, a \in RawAuthorities, p \in RawPaths, q \in RawQueries }

PureInputs ==
    [ fn : { "getFullURL" }, rawurl : StringsUpTo(RawChars, MaxRawLen) \cup StructuredRaws,
      host : { << >>, HostA } ]
    \cup [ fn : { "cloneHeaders" }, headers : NativeHeaderMaps ]
    \cup [ fn : { "getCheckRequestURL" }, request : UrlCheckRequests ]
    \cup [ fn : { "getCheckRequestHeaders" }, request : HeaderCheckRequests ]

PureInit ==
    /\ pc = "input"
    /\ in \in PureInputs
    /\ currentOptions = OptionsA
    /\ opts = Nil
    /\ hdrs = NoHeaders
    /\ sess = ""
    /\ sesserr = Nil
    /\ requestURL = NoURL
    /\ req = Nil
    /\ reply = NilReply
    /\ err = Nil
    /\ resp = NilResponse
    /\ reterr = Nil
    /\ store = NoStore
    /\ steps = << >>
    /\ mem = NoMem

\* getFullURL applied to the input (grpc.go:38).
PureGetFullURL ==
    /\ pc = "input"
    /\ in.fn = "getFullURL"
    /\ req' = [ URL |-> getFullURL(in.rawurl, in.host) ]
    /\ pc' = "output"
    /\ UNCHANGED << in, currentOptions, opts, hdrs, sess, sesserr, requestURL, reply, err, resp, reterr, store, steps, mem >>

\* getFullURL applied to its own result, with the same host.
PureGetFullURLAgain ==
    /\ pc = "output"
    /\ in.fn = "getFullURL"
    /\ req' = [ URL |-> req.URL, Again |-> getFullURL(req.URL, in.host) ]
    /\ pc' = "output_again"
    /\ UNCHANGED << in, currentOptions, opts, hdrs, sess, sesserr, requestURL, reply, err, resp, reterr,
                    store, steps, mem >>

\* getCheckRequestHeaders applied to the input (grpc.go:46).
PureGetCheckRequestHeaders ==
    /\ pc = "input"
    /\ in.fn = "getCheckRequestHeaders"
    /\ \E h \in getCheckRequestHeaders(in.request) : hdrs' = h
    /\ pc' = "output"
    /\ UNCHANGED << in, currentOptions, opts, sess, sesserr, requestURL, req, reply, err, resp, reterr, store, steps, mem >>

\* getCheckRequestURL applied to the input, and the URL strings of the
\* evaluator.Request (grpc.go:48-57).
PureGetCheckRequestURL ==
    /\ pc = "input"
    /\ in.fn = "getCheckRequestURL"
    /\ requestURL' = getCheckRequestURL(in.request)
    /\ req' = CheckEvaluatorRequest(in.request, NoHeaders, "", String(getCheckRequestURL(in.request)))
    /\ pc' = "url_built"
    /\ UNCHANGED << in, currentOptions, opts, hdrs, sess, sesserr, reply, err, resp, reterr, store, steps, mem >>

\* The redirect to login built from requestURL (grpc.go:93-117).
PureRedirect ==
    /\ pc = "url_built"
    /\ resp' = RedirectResponse(requestURL)
    /\ pc' = "output"
    /\ UNCHANGED << in, currentOptions, opts, hdrs, sess, sesserr, requestURL, req, reply, err, reterr, store, steps, mem >>

\* cloneHeaders applied to the header map of the input (grpc.go:33).
PureCloneHeaders ==
    /\ pc = "input"
    /\ in.fn = "cloneHeaders"
    /\ mem' = cloneHeadersRefs(CallerMem(in.headers))
    /\ hdrs' = cloneHeaders(in.headers)
    /\ pc' = "cloned"
    /\ UNCHANGED << in, currentOptions, opts, sess, sesserr, requestURL, req, reply, err, resp, reterr,
                    store, steps >>

\* m after a value is written to place i of the slice at address a.
WriteAt(m, a, i) == [ m EXCEPT !.heap[a][i] = << "w" >> ]

\* Downstream processing writes to a value of the copy, or deletes a key of it.
PureMutateCopy ==
    /\ pc = "cloned"
    /\ \E key \in DOMAIN mem.out :
         \/ \E i \in 1..Len(mem.heap[mem.out[key]]) : mem' = WriteAt(mem, mem.out[key], i)
         \/ mem' = [ mem EXCEPT !.out = [ k \in DOMAIN mem.out \ { key } |-> mem.out[k] ] ]
    /\ pc' = "copy_mutated"
    /\ UNCHANGED << in, currentOptions, opts, hdrs, sess, sesserr, requestURL, req, reply, err, resp,
                    reterr, store, steps >>

\* The caller writes to a value of its own map, or deletes a key of it.
PureMutateCaller ==
    /\ pc = "cloned"
    /\ \E key \in DOMAIN mem.caller :
         \/ \E i \in 1..Len(mem.heap[mem.caller[key]]) : mem' = WriteAt(mem, mem.caller[key], i)
         \/ mem' = [ mem EXCEPT !.caller = [ k \in DOMAIN mem.caller \ { key } |-> mem.caller[k] ] ]
    /\ pc' = "caller_mutated"
    /\ UNCHANGED << in, currentOptions, opts, hdrs, sess, sesserr, requestURL, req, reply, err, resp,
                    reterr, store, steps >>

PureNext ==
    \/ PureGetFullURLAgain
    \/ PureCloneHeaders
    \/ PureMutateCopy
    \/ PureMutateCaller
    \/ PureGetFullURL
    \/ PureGetCheckRequestHeaders
    \/ PureGetCheckRequestURL
    \/ PureRedirect

SpecPure == PureInit /\ [][PureNext]_vars

\* ------------------------------------------------------------------------
\* Properties of Check's decision mapping
\* ------------------------------------------------------------------------

\* Check has returned after the evaluator answered without error.
CheckAnswered == (pc = "check_done") /\ (err = Nil)

\* The response carries a Location header.
HasLocation(r) ==
    \E i \in 1..Len(r.HttpResponse.Headers) : r.HttpResponse.Headers[i].Key = Location

IsAllowed(r) ==
    /\ r.kind = "CheckResponse"
    /\ r.Status.Code = "OK"
    /\ r.HttpResponse.kind = "OkResponse"
    /\ r.HttpResponse.Headers = << >>

IsForbidden(r) ==
    /\ r.kind = "CheckResponse"
    /\ r.Status.Code = "PermissionDenied"
    /\ r.HttpResponse.kind = "DeniedResponse"
    /\ r.HttpResponse.Status = "Forbidden"
    /\ ~HasLocation(r)

IsRedirect(r) ==
    /\ r.kind = "CheckResponse"
    /\ r.Status.Code = "Unauthenticated"
    /\ r.HttpResponse.kind = "DeniedResponse"
    /\ r.HttpResponse.Status = "Found"
    /\ HasLocation(r)

\* C1: when the evaluator answers allow=true without error, Check returns the
\* Allowed response (status OK, an OkResponse, no headers) and no error,
\* whatever session resolution returned.
C1_AllowIsAllowed ==
    (CheckAnswered /\ reply.Allow) => ((reterr = Nil) /\ IsAllowed(resp))

\* C1 happens: a request is allowed although the signer could not be built.
C1_Witness ==
    CheckAnswered /\ reply.Allow /\ (sesserr \in SignerErrors) /\ IsAllowed(resp)

\* C2: when the evaluator answers allow=false without error and the session
\* error is one of the five sentinels, Check returns the redirect (status
\* Unauthenticated, HTTP status Found, a Location header), never the denial.
C2_RecoverableIsRedirect ==
    (CheckAnswered /\ ~reply.Allow /\ (sesserr \in RecoverableErrors)) =>
        ((reterr = Nil) /\ IsRedirect(resp) /\ ~IsForbidden(resp))

\* C2 happens: a denied request whose token is not valid yet is sent to login.
C2_Witness ==
    CheckAnswered /\ ~reply.Allow /\ (sesserr = "ErrNotValidYet") /\ IsRedirect(resp)

\* C3: when the evaluator answers allow=false without error and session
\* resolution succeeded, Check returns the denial (status PermissionDenied,
\* HTTP status Forbidden, no Location header) with an empty message.
C3_DeniedSessionIsForbidden ==
    (CheckAnswered /\ ~reply.Allow /\ (sesserr = Nil)) =>
        ((reterr = Nil) /\ IsForbidden(resp) /\ (resp.Status.Message = "") /\ ~IsRedirect(resp))

\* C3 happens: a request with a verified session is denied by policy.
C3_Witness ==
    CheckAnswered /\ ~reply.Allow /\ (sesserr = Nil) /\ (sess \in Tokens) /\ IsForbidden(resp)

\* C4: when the evaluator answers allow=false without error and the session
\* error is neither nil nor one of the five sentinels, Check returns the
\* denial with the message of the session error, and neither a redirect nor
\* the Allowed response.
C4_OtherErrorIsForbidden ==
    (CheckAnswered /\ ~reply.Allow /\ (sesserr # Nil) /\ (sesserr \notin RecoverableErrors)) =>
        /\ reterr = Nil
        /\ IsForbidden(resp)
        /\ resp.Status.Message = Error(sesserr)
        /\ resp.Status.Message # ""
        /\ ~IsRedirect(resp)
        /\ ~IsAllowed(resp)

\* C4 happens: the signer could not be built and the request is denied.
C4_Witness ==
    CheckAnswered /\ ~reply.Allow /\ (sesserr \in SignerErrors) /\ IsForbidden(resp)
        /\ (resp.Status.Message = "signer: invalid key")

\* C5: when the evaluator fails, Check returns a denial with status
\* PermissionDenied and no error, never a nil response with the raw error.
C5_EvaluatorErrorIsForbidden ==
    ((pc = "check_done") /\ (err # Nil)) => ((reterr = Nil) /\ IsForbidden(resp))

\* ------------------------------------------------------------------------
\* Properties of the URLs and headers of the evaluator.Request
\* ------------------------------------------------------------------------

\* The result p of url.Parse is a URL with a scheme and a host.
HasSchemeAndHost(p) == (~p.err) /\ (p.u.Scheme # << >>) /\ (p.u.Host # << >>)

\* C6: the URL of every evaluator.Request, built by IsAuthorized or by Check,
\* is a URL with a non-empty scheme and a non-empty host.
C6_URLHasSchemeAndHost ==
    (pc \in { "native_built", "check_resolved" }) => HasSchemeAndHost(Parse(req.URL))

\* The value of the Location header of a redirect.
LocationOf(r) == r.HttpResponse.Headers[1].Value

\* s is empty or has the syntax of a URL scheme.
IsScheme(s) ==
    (s = << >>) \/ ((s[1] \in Letters) /\ (\A i \in 2..Len(s) : s[i] \in AlphaNum \cup { "+", "-", "." }))

\* The URL value signin has the scheme and host of the URL value url and
\* its return-redirect parameter decodes to target.
ReturnsTo(signin, url, target) ==
    /\ signin.Scheme = url.Scheme
    /\ signin.Host = url.Host
    /\ ValuesGet(Query(signin), QueryRedirectURI) = target

\* The result p of url.Parse is a URL with the scheme and host of url, and
\* its return-redirect parameter decodes to target.
ParsesAndReturnsTo(p, url, target) ==
    (~p.err) /\ ReturnsTo([p.u EXCEPT !.Scheme = url.Scheme], url, target)
             /\ (p.u.Scheme = ToLowerString(url.Scheme))

\* A redirect was built from requestURL.
RedirectBuilt ==
    (pc = "output") /\ (in.fn = "getCheckRequestURL") /\ IsRedirect(resp)

ForwardedProtoSeen ==
    (pc \in { "check_resolved", "check_evaluated", "check_done" })
        /\ (XForwardedProto \in DOMAIN in.headers)

\* The string s starts with scheme and ":" when scheme is not empty, and
\* with no scheme when it is.
StartsWithScheme(s, scheme) ==
    IF scheme = << >> THEN getscheme(s).scheme = << >> ELSE HasPrefix(s, scheme \o << ":" >>)

\* C8: when a proxy-check request carries x-forwarded-proto, the scheme of
\* the request URL is the value of the header whatever the scheme attribute
\* is, and RequestURI, URL and the Location of a redirect all start with it.
C8_ForwardedProtoOverrides ==
    ForwardedProtoSeen =>
        /\ requestURL.Scheme = in.headers[XForwardedProto]
        /\ StartsWithScheme(req.URL, in.headers[XForwardedProto])
        /\ StartsWithScheme(req.RequestURI, in.headers[XForwardedProto])
        /\ ((pc = "check_done") /\ (reterr = Nil) /\ IsRedirect(resp)) =>
               StartsWithScheme(LocationOf(resp), in.headers[XForwardedProto])

\* C8 happens: scheme http, x-forwarded-proto https, and a redirect to an
\* https URL.
C8_Witness ==
    /\ ForwardedProtoSeen
    /\ pc = "check_done"
    /\ in.scheme = http
    /\ in.headers[XForwardedProto] = https
    /\ reterr = Nil
    /\ IsRedirect(resp)
    /\ HasPrefix(LocationOf(resp), https \o << ":", "/", "/" >>)
    /\ HasPrefix(req.URL, https \o << ":", "/", "/" >>)

\* getCheckRequestHeaders has returned.
HeadersBuilt == (pc = "output") /\ (in.fn = "getCheckRequestHeaders")

\* key is in the casing of HTTP header names: a letter is upper case exactly
\* when it starts the key or follows "-".
IsCanonicalCase(key) ==
    \A i \in 1..Len(key) :
        (key[i] \in Letters) =>
            ((key[i] \in UpperLetters) <=> ((i = 1) \/ (key[i - 1] = "-")))

\* key is made of token characters only.
IsToken(key) == \A i \in 1..Len(key) : validHeaderFieldByte(key[i])

\* C9: for every entry (k, v) of the inbound mapping the canonical map holds
\* the canonical form of k mapped to [v], no key of the canonical map is in
\* non-canonical casing, and every value sequence has exactly one element.
C9_EveryEntryCanonical ==
    HeadersBuilt =>
        /\ \A k \in DOMAIN in.request.headers :
              /\ CanonicalHeaderKey(k) \in DOMAIN hdrs
              /\ hdrs[CanonicalHeaderKey(k)] = << in.request.headers[k] >>
        /\ \A key \in DOMAIN hdrs : IsCanonicalCase(key) /\ (Len(hdrs[key]) = 1)

\* The inbound keys whose canonical form is key.
SameCanonical(headers, key) == { k \in DOMAIN headers : CanonicalHeaderKey(k) = key }

\* C9, amended: the keys of the canonical map are the canonical forms of the
\* inbound keys; each is mapped to a one-element sequence holding the value
\* of an inbound key with that canonical form, which is [v] for an entry
\* (k, v) whose canonical form no other inbound key shares; a canonical key
\* made of token characters only is in canonical casing.
C9_CanonicalOfSomeEntry ==
    HeadersBuilt =>
        /\ DOMAIN hdrs = { CanonicalHeaderKey(k) : k \in DOMAIN in.request.headers }
        /\ \A key \in DOMAIN hdrs :
              /\ Len(hdrs[key]) = 1
              /\ \E k \in SameCanonical(in.request.headers, key) : hdrs[key][1] = in.request.headers[k]
              /\ IsToken(key) => IsCanonicalCase(key)
        /\ \A k \in DOMAIN in.request.headers :
              (SameCanonical(in.request.headers, CanonicalHeaderKey(k)) = { k }) =>
                  (hdrs[CanonicalHeaderKey(k)] = << in.request.headers[k] >>)

\* C9 happens: x-foo and x-forwarded-proto are canonicalised, each with its
\* own value.
C9_Witness ==
    /\ HeadersBuilt
    /\ DOMAIN in.request.headers = { XFoo, XForwardedProto }
    /\ in.request.headers[XFoo] = Bar
    /\ in.request.headers[XForwardedProto] = https
    /\ DOMAIN hdrs = { << "X", "-", "F", "o", "o" >>,
                       << "X", "-", "F", "o", "r", "w", "a", "r", "d", "e", "d", "-", "P", "r", "o", "t", "o" >> }
    /\ hdrs[<< "X", "-", "F", "o", "o" >>] = << Bar >>

\* getFullURL has returned.
FullURLBuilt == (pc = "output") /\ (in.fn = "getFullURL")

\* The path a raw string gets as the path of a URL with a host.
AsPath(rawurl) == IF HasPrefix(rawurl, << "/" >>) THEN rawurl ELSE << "/" >> \o rawurl

\* The result p of url.Parse is the URL http://host/path.
IsHTTPURL(p, host, path) ==
    (~p.err) /\ (p.u.Scheme = http) /\ (p.u.Host = host) /\ (p.u.Path = path)

\* C10: getFullURL returns a non-empty URL string for every raw URL and host;
\* when the raw URL does not parse and the host is not empty, the string is
\* "http://", the host and the escaped raw URL as path, and parses to scheme
\* http, that host and the raw URL as path.
C10_GetFullURLTotal ==
    FullURLBuilt =>
        /\ req.URL \in Seq(PrintableSet \cup { ByteOf(n) : n \in NonPrintableCodes })
        /\ req.URL # << >>
        /\ (Parse(in.rawurl).err /\ (in.host # << >>)) =>
              /\ req.URL = http \o << ":", "/", "/" >> \o in.host \o escape(AsPath(in.rawurl), "encodePath")
              /\ IsHTTPURL(Parse(req.URL), in.host, AsPath(in.rawurl))

\* C10 happens: a raw URL with an invalid escape still gives a URL on the host.
C10_Witness ==
    /\ FullURLBuilt
    /\ in.rawurl = << "%", "a", "/" >>
    /\ in.host = HostA
    /\ Parse(in.rawurl).err
    /\ req.URL = http \o << ":", "/", "/" >> \o HostA \o << "/", "%", "2", "5", "a", "/" >>

\* ------------------------------------------------------------------------
\* Properties of the calls as a whole
\* ------------------------------------------------------------------------

\* IsAuthorized has built its evaluator.Request.
NativeBuilt == pc \in { "native_built", "native_done" }

\* C11: IsAuthorized resolves no session and loads no configuration, hands
\* the caller's user token to the evaluator unchanged, calls the evaluator
\* exactly once, and returns the evaluator's reply and error unchanged: an
\* evaluator error is returned as the error of the call with no reply, a
\* deny is a reply with allow=false and no error.
C11_NativePassThrough ==
    NativeBuilt =>
        /\ req.User = in.UserToken
        /\ opts = Nil
        /\ store = NoStore
        /\ (sess = "") /\ (sesserr = Nil)
        /\ (pc = "native_built") => (steps = << >>)
        /\ (pc = "native_done") =>
              /\ steps = << "evaluator" >>
              /\ resp = reply
              /\ reterr = err
              /\ (err # Nil) => ((reterr \in EvaluatorErrors) /\ (resp = NilReply))
              /\ (err = Nil) => (resp.kind = "IsAuthorizedReply")

\* C11 happens: a deny for a caller's token comes back as a reply with
\* allow=false and no error.
C11_Witness ==
    /\ pc = "native_done"
    /\ in.UserToken = "jwt"
    /\ req.User = "jwt"
    /\ steps = << "evaluator" >>
    /\ reterr = Nil
    /\ resp.kind = "IsAuthorizedReply"
    /\ ~resp.Allow

\* Check has built its evaluator.Request.
CheckBuilt == pc \in { "check_resolved", "check_evaluated", "check_done" }

\* C12: when session resolution returns an error, whichever step of it
\* failed, the identity in the evaluator.Request of Check is empty.
C12_FailedSessionHasNoIdentity ==
    (CheckBuilt /\ (sesserr # Nil)) => ((sess = "") /\ (req.User = ""))

\* C12 happens: the cookie store could not be built, and the evaluator is
\* called with an empty identity.
C12_Witness ==
    /\ pc = "check_evaluated"
    /\ sesserr \in StoreErrors
    /\ req.User = ""
    /\ steps = << "loadSession", "evaluator" >>

\* The steps of a call of Check that has run to its end.
AllSteps(failed) ==
    IF failed THEN << "loadSession", "evaluator" >> ELSE << "loadSession", "evaluator", "response" >>

\* C13: in a call of Check the session is resolved once, then the evaluator
\* is called once, also when session resolution failed, then at most one
\* response is produced: none when the evaluator failed, one otherwise. No
\* step is made twice.
C13_StepsInOrderOnce ==
    /\ (pc = "check_loaded") => (steps = << >>)
    /\ (pc = "check_resolved") => (steps = << "loadSession" >>)
    /\ (pc = "check_evaluated") => (steps = << "loadSession", "evaluator" >>)
    /\ (pc = "check_done") =>
          /\ steps = AllSteps(err # Nil)
          /\ (resp = NilResponse) <=> (err # Nil)
          /\ reterr = err

\* C13 happens: session loading failed, the evaluator was still called, once,
\* and one response was produced.
C13_Witness ==
    /\ pc = "check_done"
    /\ sesserr \in LoadErrors
    /\ steps = << "loadSession", "evaluator", "response" >>
    /\ resp.kind = "CheckResponse"

\* The signer and the cookie options st are built from the snapshot o alone.
BuiltFrom(st, o) ==
    /\ st.encoder.key = o.SharedKey
    /\ st.encoder.audience = o.AuthenticateHost
    /\ st.cookieOptions.Name = o.CookieName
    /\ st.cookieOptions.Domain = o.CookieDomain
    /\ st.cookieOptions.Secure = o.CookieSecure
    /\ st.cookieOptions.HTTPOnly = o.CookieHTTPOnly
    /\ st.cookieOptions.Expire = o.CookieExpire

\* The call in flight built its signer and cookie options from the one
\* snapshot it loaded.
OneSnapshot ==
    (CheckBuilt /\ (store.kind = "Store")) =>
        ((opts \in Snapshots) /\ BuiltFrom(store, opts)
            /\ (Cardinality({ o \in Snapshots : BuiltFrom(store, o) }) = 1))

\* Publishing a configuration leaves what the call in flight loaded and built
\* as it was.
UpdateKeepsLoaded ==
    (currentOptions' # currentOptions) => ((opts' = opts) /\ (store' = store))

\* C14: with configurations published while a call of Check is in flight, the
\* shared key, the audience and the cookie options of the call's session
\* resolution all come from one published snapshot, the one the call loaded,
\* and publishing never changes what the call has loaded.
C14_OneSnapshotPerCall == ([]OneSnapshot) /\ [][UpdateKeepsLoaded]_vars

\* C14 happens: a configuration was published between the load and the
\* construction of the signer, and the call still uses the one it loaded.
C14_Witness ==
    /\ pc = "check_resolved"
    /\ opts = OptionsA
    /\ currentOptions = OptionsB
    /\ store.kind = "Store"
    /\ store.encoder = [ key |-> "key-a", audience |-> "auth-a" ]
    /\ store.cookieOptions.Name = "_pomerium"

\* No slice of the copy is a slice of the caller.
NoSharedSlice(m) == \A k1 \in DOMAIN m.out : \A k2 \in DOMAIN m.caller : m.out[k1] # m.caller[k2]

\* C15: after cloneHeaders the copy has the keys of the caller's map and the
\* same values in the same order, and shares no slice with it; a write to a
\* value of the copy, or to the copy itself, leaves the caller's map as it
\* was, and a write on the caller's side leaves the copy as it was.
C15_CloneDoesNotAlias ==
    /\ (pc = "cloned") =>
          /\ HeadersAt(mem, mem.out) = in.headers
          /\ HeadersAt(mem, mem.caller) = in.headers
          /\ hdrs = in.headers
          /\ NoSharedSlice(mem)
    /\ (pc = "copy_mutated") => (HeadersAt(mem, mem.caller) = in.headers)
    /\ (pc = "caller_mutated") => (HeadersAt(mem, mem.out) = in.headers)

\* C15 happens: a value of the copy was overwritten and the caller still has
\* its two values of x-foo in order.
C15_Witness ==
    /\ pc = "copy_mutated"
    /\ XFoo \in DOMAIN mem.out
    /\ HeadersAt(mem, mem.out)[XFoo] = << Bar, << "w" >> >>
    /\ HeadersAt(mem, mem.caller)[XFoo] = << Bar, https >>

\* The query values v hold the return-redirect parameter, once, and nothing
\* else.
OnlyRedirectParam(v) ==
    (DOMAIN v = { QueryRedirectURI }) /\ (Len(v[QueryRedirectURI]) = 1)

\* The URL value signin is the sign-in endpoint with the return-redirect
\* parameter, holding target, as its whole query.
IsSignIn(signin, target) ==
    /\ signin.Path = SignInPath
    /\ signin.Opaque = << >>
    /\ signin.Fragment = << >>
    /\ signin.RawQuery = QueryRedirectURI \o << "=" >> \o QueryEscape(target)
    /\ IndexAmpSemi(signin.RawQuery) = 0
    /\ OnlyRedirectParam(Query(signin))

\* The result p of url.Parse is the sign-in endpoint with the return-redirect
\* parameter as its whole query.
ParsesAsSignIn(p) ==
    (~p.err) /\ (p.u.Path = SignInPath) /\ (p.u.Fragment = << >>) /\ OnlyRedirectParam(Query(p.u))

KeepsOwn(p, url) ==
    ((~p.err) /\ (p.u.Scheme # << >>) /\ (p.u.Host # << >>)) => (url = String(p.u))

\* The path of a URL with an authority: empty or starting with "/".
Rooted(path) == IF path = << >> THEN path ELSE AsPath(path)

\* The raw URL parsed to p has neither scheme nor host: url is http://host
\* followed by the path and the query of raw; q is url parsed.
FillsIn(p, raw, host, url, q) ==
    ((~p.err) /\ (p.u.Scheme = << >>) /\ (p.u.Host = << >>)) =>
        /\ HasPrefix(url, http \o << ":" >>)
        /\ (~q.err) /\ (q.u.Scheme = http) /\ (q.u.Host = host)
        /\ q.u.Path = Rooted(p.u.Path)
        /\ q.u.RawQuery = p.u.RawQuery
        /\ (HasPrefix(raw, << "/" >>) /\ (String(p.u) = raw)) =>
              (url = http \o << ":", "/", "/" >> \o host \o raw)

\* getFullURL has been applied to its own result.
FullURLBuiltAgain == (pc = "output_again") /\ (in.fn = "getFullURL")

\* C17: getFullURL keeps the scheme and host a raw URL carries and ignores
\* the host argument then; for a raw URL with neither it returns http://host
\* followed by the raw path and query; applied to its own result with the
\* same host, it returns that result again.
C17_FillsInOnlyMissing ==
    /\ FullURLBuilt =>
          /\ KeepsOwn(Parse(in.rawurl), req.URL)
          /\ FillsIn(Parse(in.rawurl), in.rawurl, in.host, req.URL, Parse(req.URL))
    /\ FullURLBuiltAgain => (req.Again = req.URL)

\* C17 with a host: the same, for calls whose host argument is not empty.
C17_WithHost == (in.fn = "getFullURL" /\ in.host = << >>) \/ C17_FillsInOnlyMissing

\* ------------------------------------------------------------------------
\* Properties of the responses and of the two views of a request
\* ------------------------------------------------------------------------

\* The HTTP status of a denied response; "none" for an OkResponse.
DeniedStatus(r) ==
    IF r.HttpResponse.kind = "DeniedResponse" THEN r.HttpResponse.Status ELSE "none"

\* The number of Location headers of a response.
LocationCount(r) ==
    Cardinality({ i \in 1..Len(r.HttpResponse.Headers) : r.HttpResponse.Headers[i].Key = Location })

\* The status code, the kind of the HTTP part, its status and its headers
\* of the response r go together.
Coherent(r) ==
    /\ r.Status.Code \in { "OK", "PermissionDenied", "Unauthenticated" }
    /\ r.HttpResponse.kind \in { "OkResponse", "DeniedResponse" }
    /\ (r.Status.Code = "OK") <=> (r.HttpResponse.kind = "OkResponse")
    /\ (r.Status.Code = "Unauthenticated") <=> (DeniedStatus(r) = "Found")
    /\ (DeniedStatus(r) = "Found") <=> (LocationCount(r) = 1)
    /\ LocationCount(r) <= 1
    /\ (r.Status.Code = "PermissionDenied") <=>
           ((DeniedStatus(r) = "Forbidden") /\ (r.HttpResponse.Headers = << >>))

\* C18: every response Check returns has status OK exactly when its HTTP
\* part is an OkResponse, status Unauthenticated exactly when the denied HTTP
\* status is Found, which is exactly when there is one Location header, and
\* status PermissionDenied exactly when the denied HTTP status is Forbidden
\* with no headers; there is no other status code.
C18_ResponseShapeCoherent ==
    ((pc = "check_done") /\ (resp # NilResponse)) =>
        ((reterr = Nil) /\ (resp.kind = "CheckResponse") /\ Coherent(resp))

\* C18 happens: an expired session gives status Unauthenticated, HTTP status
\* Found and one Location header.
C18_Witness ==
    /\ pc = "check_done"
    /\ sesserr = "ErrExpired"
    /\ resp.kind = "CheckResponse"
    /\ resp.Status.Code = "Unauthenticated"
    /\ DeniedStatus(resp) = "Found"
    /\ LocationCount(resp) = 1

\* The canonical header map h holds X-Forwarded-Proto.
HasForwardedProto(h) == CanonicalHeaderKey(XForwardedProto) \in DOMAIN h

\* C19: whenever the canonical header map handed to the evaluator holds the
\* key X-Forwarded-Proto, the scheme of the request URL, and of the URL string
\* handed to the evaluator, is the value of that header, whatever the casing
\* of the header name in the inbound mapping.
C19_HeaderAndURLAgree ==
    (CheckBuilt /\ HasForwardedProto(req.Header)) =>
        /\ requestURL.Scheme = req.Header[CanonicalHeaderKey(XForwardedProto)][1]
        /\ StartsWithScheme(req.URL, req.Header[CanonicalHeaderKey(XForwardedProto)][1])

\* The evaluator.Requests Check can build for the inbound request of the call
\* in flight, with the session it resolved: one for every header map the
\* loop of getCheckRequestHeaders can leave.
PossibleRequests ==
    { CheckEvaluatorRequest(in, h, sess, String(getCheckRequestURL(in))) :
        h \in getCheckRequestHeaders(in) }

\* C20: Check is deterministic. A second call with the same inbound request,
\* the same configuration, the same session and the same answer of the
\* evaluator builds the evaluator.Request this call built, with the same
\* header map, also when two inbound header names differ in letter case only,
\* and returns the response this call returned.
C20_CheckDeterministic ==
    CheckBuilt =>
        /\ PossibleRequests = { req }
        /\ (pc = "check_done") => (CheckResult(reply, err, sesserr, getCheckRequestURL(in)).resp = resp)

====
